---- MODULE Spec2Model ----
(***************************************************************************)
(* budgetools: BaseBudget -> SalaryExpensesForecasting ->                  *)
(* NetWorthSimulation (budget.py, forecast.py).                            *)
(*                                                                         *)
(* One instance of one of the three classes is modelled: its fields, its   *)
(* validated property setters, and its query / forecast methods.           *)
(*                                                                         *)
(* Numbers.  The Python code computes in binary floating point; the model  *)
(* computes in decimal fixed point:                                        *)
(*   - money, rates and percentages: the integer n stands for n / Unit     *)
(*     (four decimals, so -1 is the boundary value -0.0001);               *)
(*   - compounding factors (1 + monthly rate and their running products):  *)
(*     the integer n stands for n / FS (nine decimals).                    *)
(* Every multiplication and division rounds to nearest, as a float         *)
(* operation does, at the resolution of its result.                        *)
(***************************************************************************)
EXTENDS Integers, Sequences, FiniteSets, TLC

(***************************************************************************)
(* Fixed-point representation                                              *)
(***************************************************************************)
Unit == 10^4
FS == 10^9
Limb == 10^3

\* Program constants
MONTHS_PER_YEAR == 12
DAYS_PER_MONTH == 30
ROUND_DECIMALS == 2

\* Bound of the model: the longest horizon (years) a constructor is given.
MaxYears == 2

\* round(n / d) to the nearest integer, ties away from floor (d > 0)
DivRound(n, d) == (2 * n + d) \div (2 * d)

\* round(a * b / Unit): product of a money amount and a rate / percentage
MulU(a, b) ==
    LET q == a \div Unit
        r == a % Unit
    IN  q * b + DivRound(r * b, Unit)

\* round(a * b / FS): product with a compounding factor.  The operands are
\* split in three limbs so that no intermediate exceeds 32 bits.
MulF(a, b) ==
    LET a0 == a % Limb
        a1 == (a \div Limb) % Limb
        a2 == a \div (Limb * Limb)
        b0 == b % Limb
        b1 == (b \div Limb) % Limb
        b2 == b \div (Limb * Limb)
        c0 == a0 * b0
        c1 == a0 * b1 + a1 * b0
        c2 == a0 * b2 + a1 * b1 + a2 * b0 + (Limb \div 2)
        c3 == a1 * b2 + a2 * b1
        c4 == a2 * b2
        k1 == c0 \div Limb
        k2 == (c1 + k1) \div Limb
        k3 == (c2 + k2) \div Limb
    IN  c4 * Limb + c3 + k3

\* g ** 12 for a factor g, by squaring
Square(g) == MulF(g, g)
Pow12(g) == Square(MulF(Square(Square(g)), Square(g)))

\* y ** (1 / 12) for a factor 1 <= y <= 2: bisection for the largest g with
\* g ** 12 <= y, then the nearer of g and g + 1.
RECURSIVE Bisect12(_, _, _)
Bisect12(y, lo, hi) ==
    IF hi - lo <= 1 THEN lo
    ELSE IF Pow12((lo + hi) \div 2) <= y
         THEN Bisect12(y, (lo + hi) \div 2, hi)
         ELSE Bisect12(y, lo, (lo + hi) \div 2)

Nearer12(y, g) == IF Pow12(g + 1) - y < y - Pow12(g) THEN g + 1 ELSE g

\* the bracket of the bisection, from the series of (1 + x) ** (1 / 12):
\* 1 + x/12 - 11 x^2/288 < (1 + x) ** (1/12) < 1 + x/12 - 11 x^2/288 + x^3/40
\* for 0 < x <= 1; d is x as a factor
RootBelow(d) == FS + d \div 12 - (MulF(d, d) \div 288) * 11 - 13
RootWidth(d) == MulF(MulF(d, d), d) \div 40 + 16

Root12(y) ==
    Nearer12(y, Bisect12(y, RootBelow(y - FS), RootBelow(y - FS) + RootWidth(y - FS)))

\* np.round(x, 2) on a money amount: nearest multiple of 0.01, ties to even
NpRound(v) ==
    LET cent == Unit \div (10^ROUND_DECIMALS)
        q == v \div cent
        r == v % cent
    IN  IF 2 * r < cent THEN q * cent
        ELSE IF 2 * r > cent THEN (q + 1) * cent
        ELSE IF q % 2 = 0 THEN q * cent ELSE (q + 1) * cent


(***************************************************************************)
(* Python / NumPy helpers                                                  *)
(***************************************************************************)
None == "None"

\* the outcome of a call: a returned value, or a raised exception
Return(v) == [raised |-> None, message |-> None, value |-> v]
Raise(exc, text) == [raised |-> exc, message |-> text, value |-> None]

\* mutant: the annual rate divided by MONTHS_PER_YEAR
PeriodicFactor_Simple(annual) ==
    FS + DivRound(annual * (FS \div Unit), MONTHS_PER_YEAR)

\* (1 + annual) ** (1 / MONTHS_PER_YEAR) - 1, kept as the factor 1 + rate
\* (forecast.py adds the 1 back before every use)
PeriodicFactor(annual) == Root12((Unit + annual) * (FS \div Unit))

\* mutant: the products start at 1, so that the first element is the base
RECURSIVE NpCumProdRepeat_FromOne(_, _, _)
NpCumProdRepeat_FromOne(acc, g, n) ==
    IF Len(acc) >= n THEN acc
    ELSE NpCumProdRepeat_FromOne(
             Append(acc, IF acc = <<>> THEN FS ELSE MulF(acc[Len(acc)], g)), g, n)

\* mutant: one repetition short
RECURSIVE NpCumProdRepeat_Short(_, _, _)
NpCumProdRepeat_Short(acc, g, n) ==
    IF Len(acc) >= n - 1 THEN acc
    ELSE NpCumProdRepeat_Short(
             Append(acc, IF acc = <<>> THEN g ELSE MulF(acc[Len(acc)], g)), g, n)

\* np.cumprod(np.repeat(g, n)) for n >= 0
RECURSIVE NpCumProdRepeat(_, _, _)
NpCumProdRepeat(acc, g, n) ==
    IF Len(acc) >= n THEN acc
    ELSE NpCumProdRepeat(
             Append(acc, IF acc = <<>> THEN g ELSE MulF(acc[Len(acc)], g)), g, n)

\* np.cumsum(s)
RECURSIVE NpCumSumFrom(_, _)
NpCumSumFrom(acc, s) ==
    IF Len(acc) >= Len(s) THEN acc
    ELSE NpCumSumFrom(
             Append(acc, IF acc = <<>> THEN s[1] ELSE acc[Len(acc)] + s[Len(acc) + 1]), s)

NpCumSum(s) == NpCumSumFrom(<<>>, s)

\* np.repeat(v, n) raises ValueError for a negative count
NpRepeatRaises(n) == n < 0
NegativeCount == "negative dimensions are not allowed"
EmptyIndex == "index -1 is out of bounds for axis 0 with size 0"

(***************************************************************************)
(* The classes                                                             *)
(***************************************************************************)
Classes == {"BaseBudget", "SalaryExpensesForecasting", "NetWorthSimulation"}
Forecasting == {"SalaryExpensesForecasting", "NetWorthSimulation"}

\* mutant: the two arguments stored in each other's place
BaseBudget_init_Swapped(salary, tax_rate) ==
    [cls |-> "BaseBudget", salary |-> tax_rate, tax_rate |-> salary,
     _rent |-> 0, _food_daily |-> 0, _entertainment |-> 0,
     _emergency_expenses |-> 0]

\* BaseBudget.__init__
BaseBudget_init(salary, tax_rate) ==
    [cls |-> "BaseBudget", salary |-> salary, tax_rate |-> tax_rate,
     _rent |-> 0, _food_daily |-> 0, _entertainment |-> 0,
     _emergency_expenses |-> 0]

\* SalaryExpensesForecasting.__init__
SalaryExpensesForecasting_init(years, salary, tax_rate) ==
    [cls |-> "SalaryExpensesForecasting", salary |-> salary, tax_rate |-> tax_rate,
     _rent |-> 0, _food_daily |-> 0, _entertainment |-> 0,
     _emergency_expenses |-> 0,
     years |-> years, _annual_salary_growth |-> 0, _annual_inflation |-> 0]

\* mutant: annual_investment_return initialised from monthly_investment_pct
NetWorthSimulation_init_ReturnFromPct(years, salary, tax_rate, monthly_investment_pct) ==
    [cls |-> "NetWorthSimulation", salary |-> salary, tax_rate |-> tax_rate,
     _rent |-> 0, _food_daily |-> 0, _entertainment |-> 0,
     _emergency_expenses |-> 0,
     years |-> years, _annual_salary_growth |-> 0, _annual_inflation |-> 0,
     monthly_investment_pct |-> monthly_investment_pct,
     _annual_investment_return |-> monthly_investment_pct]

\* NetWorthSimulation.__init__
NetWorthSimulation_init(years, salary, tax_rate, monthly_investment_pct) ==
    [cls |-> "NetWorthSimulation", salary |-> salary, tax_rate |-> tax_rate,
     _rent |-> 0, _food_daily |-> 0, _entertainment |-> 0,
     _emergency_expenses |-> 0,
     years |-> years, _annual_salary_growth |-> 0, _annual_inflation |-> 0,
     monthly_investment_pct |-> monthly_investment_pct,
     _annual_investment_return |-> 0]

(***************************************************************************)
(* BaseBudget (budget.py)                                                  *)
(***************************************************************************)
\* mutant: the tax rate clamped to the domain [0, 1] before use
monthly_salary_after_tax_Clamped(self) ==
    LET tax_rate == IF self.tax_rate < 0 THEN 0
                    ELSE IF self.tax_rate > Unit THEN Unit ELSE self.tax_rate
    IN  DivRound(MulU(self.salary, Unit - tax_rate), MONTHS_PER_YEAR)

monthly_salary_after_tax(self) ==
    LET salary_disposable == MulU(self.salary, Unit - self.tax_rate)
    IN  DivRound(salary_disposable, MONTHS_PER_YEAR)

\* property getters
rent(self) == self._rent
food_daily(self) == self._food_daily
entertainment(self) == self._entertainment
emergency_expenses(self) == self._emergency_expenses

\* mutant: the comparison `<` written `<=`
rent_setter_RejectsZero(self, rent_value) ==
    IF rent_value <= 0
    THEN [out |-> Raise("ValueError", "Your rent should be 0 or above"),
          self |-> self]
    ELSE [out |-> Return(None), self |-> [self EXCEPT !._rent = rent_value]]

\* property setters: the outcome of the assignment and the instance after it
rent_setter(self, rent_value) ==
    IF rent_value < 0
    THEN [out |-> Raise("ValueError", "Your rent should be 0 or above"),
          self |-> self]
    ELSE [out |-> Return(None), self |-> [self EXCEPT !._rent = rent_value]]

food_daily_setter(self, food_value) ==
    IF food_value < 0
    THEN [out |-> Raise("ValueError", "Your food expenses should be 0 or above"),
          self |-> self]
    ELSE [out |-> Return(None), self |-> [self EXCEPT !._food_daily = food_value]]

\* mutant: a successful assignment also resets emergency_expenses
entertainment_setter_ResetsEmergency(self, entertainment_value) ==
    IF entertainment_value < 0
    THEN [out |-> Raise("ValueError",
                        "Sorry your entertainment expenses should be 0 or above"),
          self |-> self]
    ELSE [out |-> Return(None),
          self |-> [self EXCEPT !._entertainment = entertainment_value,
                                !._emergency_expenses = 0]]

entertainment_setter(self, entertainment_value) ==
    IF entertainment_value < 0
    THEN [out |-> Raise("ValueError",
                        "Sorry your entertainment expenses should be 0 or above"),
          self |-> self]
    ELSE [out |-> Return(None),
          self |-> [self EXCEPT !._entertainment = entertainment_value]]

emergency_expenses_setter(self, emergency_value) ==
    IF emergency_value < 0
    THEN [out |-> Raise("ValueError",
                        "Sorry your emergency expenses should be 0 or above"),
          self |-> self]
    ELSE [out |-> Return(None),
          self |-> [self EXCEPT !._emergency_expenses = emergency_value]]

\* mutant: emergency_expenses left out of the sum
monthly_expenses_NoEmergency(self) ==
    self._rent + (self._food_daily * DAYS_PER_MONTH) + self._entertainment

monthly_expenses(self) ==
    self._rent + (self._food_daily * DAYS_PER_MONTH) + self._entertainment
        + self._emergency_expenses

\* mutant: the subtraction the other way round
monthly_savings_Reversed(self) ==
    monthly_expenses(self) - monthly_salary_after_tax(self)

monthly_savings(self) == monthly_salary_after_tax(self) - monthly_expenses(self)

(***************************************************************************)
(* SalaryExpensesForecasting (forecast.py)                                 *)
(***************************************************************************)
annual_salary_growth(self) == self._annual_salary_growth
annual_inflation(self) == self._annual_inflation

\* mutant: the value stored before it is validated
annual_salary_growth_setter_StoreFirst(self, salary_growth_value) ==
    [out |-> IF salary_growth_value < 0
             THEN Raise("ValueError",
                        "The salary growth rate should be 0 or between 0-1")
             ELSE Return(None),
     self |-> [self EXCEPT !._annual_salary_growth = salary_growth_value]]

annual_salary_growth_setter(self, salary_growth_value) ==
    IF salary_growth_value < 0
    THEN [out |-> Raise("ValueError",
                        "The salary growth rate should be 0 or between 0-1"),
          self |-> self]
    ELSE [out |-> Return(None),
          self |-> [self EXCEPT !._annual_salary_growth = salary_growth_value]]

\* mutant: the setter stores without validating
annual_inflation_setter_NoCheck(self, inflation_value) ==
    [out |-> Return(None),
     self |-> [self EXCEPT !._annual_inflation = inflation_value]]

annual_inflation_setter(self, inflation_value) ==
    IF inflation_value < 0
    THEN [out |-> Raise("ValueError",
                        "The inflation rate should be 0 or between 0-1"),
          self |-> self]
    ELSE [out |-> Return(None),
          self |-> [self EXCEPT !._annual_inflation = inflation_value]]

\* mutant: np.round left out
Scale_NoRound(cumulative, base) ==
    [i \in 1..Len(cumulative) |-> MulF(base, cumulative[i])]

\* np.round(np.cumprod(np.repeat(1 + monthly_rate, forecast_months)) * base, 2)
Scale(cumulative, base) ==
    [i \in 1..Len(cumulative) |-> NpRound(MulF(base, cumulative[i]))]

\* mutant: the months in reverse order, the largest factor first
CompoundForecast_Reversed(annual, base, forecast_months) ==
    [i \in 1..forecast_months |->
        Scale(NpCumProdRepeat(<<>>, PeriodicFactor(annual), forecast_months),
              base)[forecast_months + 1 - i]]

CompoundForecast(annual, base, forecast_months) ==
    Scale(NpCumProdRepeat(<<>>, PeriodicFactor(annual), forecast_months), base)

monthly_salary_forecast(self) ==
    LET forecast_months == MONTHS_PER_YEAR * self.years
    IN  IF NpRepeatRaises(forecast_months)
        THEN Raise("ValueError", NegativeCount)
        ELSE Return(CompoundForecast(self._annual_salary_growth,
                                     monthly_salary_after_tax(self),
                                     forecast_months))

\* mutant: the expenses grow at the rate of the salary
monthly_expenses_forecast_AtSalaryGrowth(self) ==
    LET forecast_months == MONTHS_PER_YEAR * self.years
    IN  IF NpRepeatRaises(forecast_months)
        THEN Raise("ValueError", NegativeCount)
        ELSE Return(CompoundForecast(annual_salary_growth(self),
                                     monthly_expenses(self),
                                     forecast_months))

monthly_expenses_forecast(self) ==
    LET forecast_months == MONTHS_PER_YEAR * self.years
    IN  IF NpRepeatRaises(forecast_months)
        THEN Raise("ValueError", NegativeCount)
        ELSE Return(CompoundForecast(annual_inflation(self),
                                     monthly_expenses(self),
                                     forecast_months))

(***************************************************************************)
(* NetWorthSimulation (forecast.py)                                        *)
(***************************************************************************)
annual_investment_return(self) == self._annual_investment_return

\* mutant: the setter stores without validating
annual_investment_return_setter_NoCheck(self, investment_return_value) ==
    [out |-> Return(None),
     self |-> [self EXCEPT !._annual_investment_return = investment_return_value]]

annual_investment_return_setter(self, investment_return_value) ==
    IF investment_return_value < 0
    THEN [out |-> Raise("ValueError",
                        "The inflation rate should be 0 or between 0-1"),
          self |-> self]
    ELSE [out |-> Return(None),
          self |-> [self EXCEPT
                       !._annual_investment_return = investment_return_value]]

\* salary_forecast - expenses_forecast, element by element; an exception of
\* either call propagates
Subtract(salary_forecast, expenses_forecast) ==
    IF salary_forecast.raised # None THEN salary_forecast
    ELSE IF expenses_forecast.raised # None THEN expenses_forecast
    ELSE Return([i \in 1..Len(salary_forecast.value) |->
                    salary_forecast.value[i] - expenses_forecast.value[i]])

\* self.monthly_salary_forecast() - self.monthly_expenses_forecast()
NetSavings(self) ==
    Subtract(monthly_salary_forecast(self), monthly_expenses_forecast(self))

\* mutant: the last element indexed [len] instead of [-1]
LastAndAll_PastTheEnd(cumulative_savings) ==
    Raise("IndexError", "index out of bounds")

\* cumulative_savings[-1], cumulative_savings
LastAndAll(cumulative_savings) ==
    IF Len(cumulative_savings) = 0
    THEN Raise("IndexError", EmptyIndex)
    ELSE Return(<<cumulative_savings[Len(cumulative_savings)], cumulative_savings>>)

\* mutant: np.cumsum left out
Accumulate_NoSum(savings) ==
    IF savings.raised # None THEN savings
    ELSE LastAndAll(savings.value)

Accumulate(savings) ==
    IF savings.raised # None THEN savings
    ELSE LastAndAll(NpCumSum(savings.value))

savings_forecast(self) == Accumulate(NetSavings(self))

\* array * scalar
Times(s, pct) == [i \in 1..Len(s) |-> MulU(s[i], pct)]

\* mutant: the cumulative sum taken over the deposits
WithCumSum_OfDeposits(investment_deposit_forecast, savings_forecast_new) ==
    <<investment_deposit_forecast, savings_forecast_new,
      NpCumSum(investment_deposit_forecast)>>

WithCumSum(investment_deposit_forecast, savings_forecast_new) ==
    <<investment_deposit_forecast, savings_forecast_new,
      NpCumSum(savings_forecast_new)>>

\* mutant: the two shares taken for each other
Split_Swapped(savings_a, savings_b, pct) ==
    IF savings_a.raised # None THEN savings_a
    ELSE IF savings_b.raised # None THEN savings_b
    ELSE Return(WithCumSum(Times(savings_a.value, Unit - pct),
                           Times(savings_b.value, pct)))

\* mutant: the savings kept are not reduced by the share invested
Split_KeepsAll(savings_a, savings_b, pct) ==
    IF savings_a.raised # None THEN savings_a
    ELSE IF savings_b.raised # None THEN savings_b
    ELSE Return(WithCumSum(Times(savings_a.value, pct), savings_b.value))

\* the two differences are computed by separate calls of the forecasts
Split(savings_a, savings_b, pct) ==
    IF savings_a.raised # None THEN savings_a
    ELSE IF savings_b.raised # None THEN savings_b
    ELSE Return(WithCumSum(Times(savings_a.value, pct),
                           Times(savings_b.value, Unit - pct)))

monthly_income_investment(self) ==
    Split(NetSavings(self), NetSavings(self), self.monthly_investment_pct)

\* mutant: the previous balance carried over without its growth
Grow_NoGrowth(acc, factor) == IF acc = <<>> THEN 0 ELSE acc[Len(acc)]

\* mutant: a growth of 1% a month, whatever the return
Grow_OnePercent(acc, factor) ==
    IF acc = <<>> THEN 0 ELSE acc[Len(acc)] + acc[Len(acc)] \div 100

\* mutant: the monthly return subtracted instead of added
Grow_Shrinking(acc, factor) ==
    IF acc = <<>> THEN 0 ELSE MulF(acc[Len(acc)], 2 * FS - factor)

\* the loop of net_worth_savings_investments: investment_portfolio[0 .. n-1],
\* each month from the month before
Grow(acc, factor) == IF acc = <<>> THEN 0 ELSE MulF(acc[Len(acc)], factor)

RECURSIVE PortfolioFrom(_, _, _, _)
PortfolioFrom(acc, deposit, factor, n) ==
    IF Len(acc) >= n THEN acc
    ELSE PortfolioFrom(Append(acc, Grow(acc, factor) + deposit[Len(acc) + 1]),
                       deposit, factor, n)

\* mutant: the portfolio left out of the net worth
NetWorth_SavingsOnly(cumulative_savings_new, investment_portfolio) ==
    <<cumulative_savings_new, investment_portfolio,
      [i \in 1..Len(investment_portfolio) |-> cumulative_savings_new[i]]>>

NetWorth(cumulative_savings_new, investment_portfolio) ==
    <<cumulative_savings_new, investment_portfolio,
      [i \in 1..Len(investment_portfolio) |->
          cumulative_savings_new[i] + investment_portfolio[i]]>>

Simulate(split, factor, forecast_months) ==
    IF split.raised # None THEN split
    ELSE Return(NetWorth(split.value[3],
                         PortfolioFrom(<<>>, split.value[1], factor,
                                       forecast_months)))

net_worth_savings_investments(self) ==
    Simulate(monthly_income_investment(self),
             PeriodicFactor(annual_investment_return(self)),
             MONTHS_PER_YEAR * self.years)

(***************************************************************************)
(* Investment utilities (investment.py, and their copies in main.py).      *)
(* desired_amount is a whole number of currency units, as its annotation   *)
(* says; a returned amount is held in cents, a rate in units of 1 / Unit.  *)
(***************************************************************************)
CentsPerUnit == 10^2
MaxInt == 2 * (2^30 - 1) + 1

\* float results of a division by zero
Inf == "inf"
NegInf == "-inf"
NaN == "nan"

NegativeArgument ==
    "No arguments in the equation should be negative,             please redefine"

\* g ** n for a factor g and n >= 0, as the product of n factors
FloatPow(g, n) == IF n = 0 THEN FS ELSE NpCumProdRepeat(<<>>, g, n)[n]

\* a / b for an amount a >= 0 and a factor b > 0: bisection for the largest q
\* with q * b <= a, then the nearer of q and q + 1
RECURSIVE BisectDiv(_, _, _, _)
BisectDiv(a, b, lo, hi) ==
    IF hi - lo <= 1 THEN lo
    ELSE IF MulF(lo + (hi - lo) \div 2, b) <= a
         THEN BisectDiv(a, b, lo + (hi - lo) \div 2, hi)
         ELSE BisectDiv(a, b, lo, lo + (hi - lo) \div 2)

NearerDiv(a, b, q) == IF MulF(q + 1, b) - a < a - MulF(q, b) THEN q + 1 ELSE q

DivF(a, b) == NearerDiv(a, b, BisectDiv(a, b, 0, IF b >= FS THEN a + 1 ELSE MaxInt))

\* x / 0 in NumPy arithmetic: a warning, and inf or nan
DivideByZero(x) == IF x = 0 THEN NaN ELSE IF x < 0 THEN NegInf ELSE Inf

\* rate / |(1 + rate) ** nper - 1| for rate > 0 and nper # 0; a negative
\* power is the reciprocal of the positive one
RateOverGrowth(factor, nper) ==
    IF nper > 0 THEN DivF(factor - FS, FloatPow(factor, nper) - FS)
    ELSE DivF(factor - FS, FS - DivF(FS, FloatPow(factor, -nper)))

\* -1 * npf.pmt(rate, nper, pv=0, fv), rate given as the factor 1 + rate:
\* fact = nper if rate == 0 else ((1 + rate) ** nper - 1) / rate, and
\* pmt = -(fv + pv * (1 + rate) ** nper) / fact; the model multiplies |fv| by
\* 1 / |fact|, which fits the width of its numbers, and sets the sign
npf_pmt_negated(factor, nper, fv) ==
    IF nper = 0 THEN DivideByZero(fv)
    ELSE IF factor = FS THEN DivRound(fv * CentsPerUnit, nper)
    ELSE (IF (fv < 0) = (nper < 0) THEN 1 ELSE -1)
             * MulF((IF fv < 0 THEN -fv ELSE fv) * CentsPerUnit,
                    RateOverGrowth(factor, nper))

\* npf.pv(rate, nper, pmt=0, fv) = -(fv + pmt * fact) / (1 + rate) ** nper,
\* called with fv = -1 * desired_amount
npf_pv(factor, nper, fv) == DivF((-1 * fv) * CentsPerUnit, FloatPow(factor, nper))

\* mutant: the comparisons `<` written `<=`
monthly_amount_to_investment_RejectsZero(avg_ror, years, desired_amount) ==
    IF avg_ror <= 0 \/ years <= 0 \/ desired_amount <= 0
    THEN Raise("RuntimeError", NegativeArgument)
    ELSE Return(npf_pmt_negated(PeriodicFactor(avg_ror), MONTHS_PER_YEAR * years,
                                desired_amount))

\* investment.py
monthly_amount_to_investment(avg_ror, years, desired_amount) ==
    IF avg_ror < 0 \/ years < 0 \/ desired_amount < 0
    THEN Raise("RuntimeError", NegativeArgument)
    ELSE Return(npf_pmt_negated(PeriodicFactor(avg_ror), MONTHS_PER_YEAR * years,
                                desired_amount))

investment_inflation_adjustment(avg_inflation, years, desired_amount) ==
    IF avg_inflation < 0 \/ years < 0 \/ desired_amount < 0
    THEN Raise("RuntimeError", NegativeArgument)
    ELSE Return(npf_pv((Unit + avg_inflation) * (FS \div Unit), years,
                       -1 * desired_amount))

\* main.py
main_monthly_amount_to_investment(avg_ror, years, desired_amount) ==
    IF avg_ror < 0 \/ years < 0 \/ desired_amount < 0
    THEN Raise("RuntimeError", NegativeArgument)
    ELSE Return(npf_pmt_negated(PeriodicFactor(avg_ror), 12 * years,
                                desired_amount))

\* mutant: the amount deflated by (1 - avg_inflation) a year
main_investment_inflation_adjustment_Deflated(avg_inflation, years, desired_amount) ==
    IF avg_inflation < 0 \/ years < 0 \/ desired_amount < 0
    THEN Raise("RuntimeError", NegativeArgument)
    ELSE Return(MulF(desired_amount * CentsPerUnit,
                     FloatPow((Unit - avg_inflation) * (FS \div Unit), years)))

main_investment_inflation_adjustment(avg_inflation, years, desired_amount) ==
    IF avg_inflation < 0 \/ years < 0 \/ desired_amount < 0
    THEN Raise("RuntimeError", NegativeArgument)
    ELSE Return(npf_pv((Unit + avg_inflation) * (FS \div Unit), years,
                       -1 * desired_amount))

\* src/src/main.py: an earlier copy of monthly_amount_to_investment, without
\* the check of its arguments and with `rate = 0.07` in place of avg_ror
rate == 700

src_monthly_amount_to_investment(avg_ror, years, desired_amount) ==
    Return(npf_pmt_negated(PeriodicFactor(rate), 12 * years, desired_amount))

(***************************************************************************)
(* Inputs of the model.  A constructor is given one of the argument        *)
(* vectors of CtorArgs: every combination of the accepted values, and the  *)
(* base vector with one argument replaced by a value outside its domain.   *)
(***************************************************************************)
U(n) == n * Unit

SalaryInputs == {U(60000)}
TaxInputs == {3000}
YearInputs == 1..MaxYears
PctInputs == {0, 3000}

Args(y, s, t, p) ==
    [years |-> y, salary |-> s, tax_rate |-> t, monthly_investment_pct |-> p]

BaseArgs == Args(1, U(60000), 3000, 3000)

CtorArgs ==
    {Args(y, s, t, p) : y \in YearInputs, s \in SalaryInputs,
                        t \in TaxInputs, p \in PctInputs}
    \cup {[BaseArgs EXCEPT !.salary = s] : s \in {U(-12000), U(10000)}}
    \cup {[BaseArgs EXCEPT !.tax_rate = t] : t \in {-1000, 15000}}
    \cup {[BaseArgs EXCEPT !.years = y] : y \in {-1, 0}}
    \cup {[BaseArgs EXCEPT !.monthly_investment_pct = p] : p \in {-1}}

\* values assigned to the properties: the boundary -0.0001, a clearly
\* negative value, zero and one positive value
NegativeInputs == {-1, U(-100)}
RentInputs == NegativeInputs \cup {0, U(1200)}
FoodInputs == NegativeInputs \cup {0, U(10), U(30)}
EntertainmentInputs == NegativeInputs \cup {0, U(200)}
EmergencyInputs == NegativeInputs \cup {0, U(250)}
NegativeRates == {-1, -500}
GrowthInputs == NegativeRates \cup {0, 500}
InflationInputs == NegativeRates \cup {0, 250}
ReturnInputs == NegativeRates \cup {0, 700}

\* arguments of the investment utilities: for each of the three, two
\* negative values, zero and the value of the examples
RorInputs == {-700, -1, 0, 700}
InflationRateInputs == {-300, -1, 0, 300}
InvestmentYearInputs == -1..MaxYears
AdjustmentYearInputs == {-1, 0, 1, 25}
AmountInputs == {-1000000, -1, 0, 1000000}

(***************************************************************************)
(* State: the instance, the caller's position, and the outcome of the last *)
(* call (what was called, with what, what it raised, what it returned).    *)
(***************************************************************************)
VARIABLES obj, pc, call, arg, raised, message, ret

vars == <<obj, pc, call, arg, raised, message, ret>>

NoObject == [cls |-> None]

Init ==
    /\ obj = NoObject
    /\ pc = "new"
    /\ call = None
    /\ arg = None
    /\ raised = None
    /\ message = None
    /\ ret = None

\* the caller sees the outcome `res.out` of `name(a)`; the instance is `res.self`
Outcome(name, a, res) ==
    /\ pc' = "returned"
    /\ call' = name
    /\ arg' = a
    /\ raised' = res.out.raised
    /\ message' = res.out.message
    /\ ret' = res.out.value
    /\ obj' = res.self

\* mutant: the call overwrites a field of the instance
Query_Storing(name, out) ==
    Outcome(name, None, [out |-> out, self |-> [obj EXCEPT !.salary = 0]])

\* a method that only reads the instance
Query(name, out) == Outcome(name, None, [out |-> out, self |-> obj])

\* a function applied to the arguments `a`
Apply(name, a, out) == Outcome(name, a, [out |-> out, self |-> obj])

Construct(a, instance) ==
    /\ pc = "new"
    /\ Outcome("__init__", a, [out |-> Return(None), self |-> instance])

New_BaseBudget ==
    \E a \in CtorArgs :
        Construct([salary |-> a.salary, tax_rate |-> a.tax_rate],
                  BaseBudget_init(a.salary, a.tax_rate))

New_SalaryExpensesForecasting ==
    \E a \in CtorArgs :
        Construct([years |-> a.years, salary |-> a.salary, tax_rate |-> a.tax_rate],
                  SalaryExpensesForecasting_init(a.years, a.salary, a.tax_rate))

New_NetWorthSimulation ==
    \E a \in CtorArgs :
        Construct(a, NetWorthSimulation_init(a.years, a.salary, a.tax_rate,
                                             a.monthly_investment_pct))

Idle(classes) == pc = "idle" /\ obj.cls \in classes

Assign_rent ==
    /\ Idle(Classes)
    /\ \E v \in RentInputs : Outcome("rent", v, rent_setter(obj, v))

Assign_food_daily ==
    /\ Idle(Classes)
    /\ \E v \in FoodInputs : Outcome("food_daily", v, food_daily_setter(obj, v))

Assign_entertainment ==
    /\ Idle(Classes)
    /\ \E v \in EntertainmentInputs :
           Outcome("entertainment", v, entertainment_setter(obj, v))

Assign_emergency_expenses ==
    /\ Idle(Classes)
    /\ \E v \in EmergencyInputs :
           Outcome("emergency_expenses", v, emergency_expenses_setter(obj, v))

Assign_annual_salary_growth ==
    /\ Idle(Forecasting)
    /\ \E v \in GrowthInputs :
           Outcome("annual_salary_growth", v, annual_salary_growth_setter(obj, v))

Assign_annual_inflation ==
    /\ Idle(Forecasting)
    /\ \E v \in InflationInputs :
           Outcome("annual_inflation", v, annual_inflation_setter(obj, v))

Assign_annual_investment_return ==
    /\ Idle({"NetWorthSimulation"})
    /\ \E v \in ReturnInputs :
           Outcome("annual_investment_return", v,
                   annual_investment_return_setter(obj, v))

Call_monthly_salary_after_tax ==
    /\ Idle(Classes)
    /\ Query("monthly_salary_after_tax", Return(monthly_salary_after_tax(obj)))

Call_monthly_expenses ==
    /\ Idle(Classes)
    /\ Query("monthly_expenses", Return(monthly_expenses(obj)))

Call_monthly_savings ==
    /\ Idle(Classes)
    /\ Query("monthly_savings", Return(monthly_savings(obj)))

Call_monthly_salary_forecast ==
    /\ Idle(Forecasting)
    /\ Query("monthly_salary_forecast", monthly_salary_forecast(obj))

Call_monthly_expenses_forecast ==
    /\ Idle(Forecasting)
    /\ Query("monthly_expenses_forecast", monthly_expenses_forecast(obj))

Call_savings_forecast ==
    /\ Idle({"NetWorthSimulation"})
    /\ Query("savings_forecast", savings_forecast(obj))

Call_monthly_income_investment ==
    /\ Idle({"NetWorthSimulation"})
    /\ Query("monthly_income_investment", monthly_income_investment(obj))

Call_net_worth_savings_investments ==
    /\ Idle({"NetWorthSimulation"})
    /\ Query("net_worth_savings_investments", net_worth_savings_investments(obj))

\* the caller takes the outcome and goes on to its next statement
Continue ==
    /\ pc = "returned"
    /\ pc' = "idle"
    /\ call' = None
    /\ arg' = None
    /\ raised' = None
    /\ message' = None
    /\ ret' = None
    /\ UNCHANGED obj

Next ==
    \/ New_BaseBudget
    \/ New_SalaryExpensesForecasting
    \/ New_NetWorthSimulation
    \/ Assign_rent
    \/ Assign_food_daily
    \/ Assign_entertainment
    \/ Assign_emergency_expenses
    \/ Assign_annual_salary_growth
    \/ Assign_annual_inflation
    \/ Assign_annual_investment_return
    \/ Call_monthly_salary_after_tax
    \/ Call_monthly_expenses
    \/ Call_monthly_savings
    \/ Call_monthly_salary_forecast
    \/ Call_monthly_expenses_forecast
    \/ Call_savings_forecast
    \/ Call_monthly_income_investment
    \/ Call_net_worth_savings_investments
    \/ Continue

Spec == Init /\ [][Next]_vars

(***************************************************************************)
(* The investment utilities are functions of their arguments only: a       *)
(* caller without an instance applies them to every argument vector.       *)
(***************************************************************************)
NoInstance == pc # "returned" /\ obj = NoObject

InvestmentArgs(r, y, d) == [avg_ror |-> r, years |-> y, desired_amount |-> d]
AdjustmentArgs(r, y, d) == [avg_inflation |-> r, years |-> y, desired_amount |-> d]

Call_monthly_amount_to_investment ==
    /\ NoInstance
    /\ \E r \in RorInputs, y \in InvestmentYearInputs, d \in AmountInputs :
           Apply("monthly_amount_to_investment", InvestmentArgs(r, y, d),
                  monthly_amount_to_investment(r, y, d))

Call_investment_inflation_adjustment ==
    /\ NoInstance
    /\ \E r \in InflationRateInputs, y \in AdjustmentYearInputs, d \in AmountInputs :
           Apply("investment_inflation_adjustment", AdjustmentArgs(r, y, d),
                  investment_inflation_adjustment(r, y, d))

Call_main_monthly_amount_to_investment ==
    /\ NoInstance
    /\ \E r \in RorInputs, y \in InvestmentYearInputs, d \in AmountInputs :
           Apply("main.monthly_amount_to_investment", InvestmentArgs(r, y, d),
                  main_monthly_amount_to_investment(r, y, d))

Call_main_investment_inflation_adjustment ==
    /\ NoInstance
    /\ \E r \in InflationRateInputs, y \in AdjustmentYearInputs, d \in AmountInputs :
           Apply("main.investment_inflation_adjustment", AdjustmentArgs(r, y, d),
                  main_investment_inflation_adjustment(r, y, d))

Call_src_monthly_amount_to_investment ==
    /\ NoInstance
    /\ \E r \in RorInputs, y \in InvestmentYearInputs, d \in AmountInputs :
           Apply("src.monthly_amount_to_investment", InvestmentArgs(r, y, d),
                  src_monthly_amount_to_investment(r, y, d))

NextInvestment ==
    \/ Call_monthly_amount_to_investment
    \/ Call_investment_inflation_adjustment
    \/ Call_main_monthly_amount_to_investment
    \/ Call_main_investment_inflation_adjustment
    \/ Call_src_monthly_amount_to_investment
    \/ Continue

SpecInvestment == Init /\ [][NextInvestment]_vars

(***************************************************************************)
(* Properties                                                              *)
(***************************************************************************)
ExpenseFields == {"rent", "food_daily", "entertainment", "emergency_expenses"}
RateFields == {"annual_salary_growth", "annual_inflation", "annual_investment_return"}
ForecastMethods ==
    {"monthly_salary_forecast", "monthly_expenses_forecast", "savings_forecast",
     "monthly_income_investment", "net_worth_savings_investments"}

\* what the property getter of field `name` returns
Get(name, self) ==
    CASE name = "rent" -> rent(self)
      [] name = "food_daily" -> food_daily(self)
      [] name = "entertainment" -> entertainment(self)
      [] name = "emergency_expenses" -> emergency_expenses(self)
      [] name = "annual_salary_growth" -> annual_salary_growth(self)
      [] name = "annual_inflation" -> annual_inflation(self)
      [] name = "annual_investment_return" -> annual_investment_return(self)

Returned(names) == pc = "returned" /\ call \in names

\* C1: assigning a negative value (the boundary -0.0001 included) to rent,
\* food_daily, entertainment or emergency_expenses fails with ValueError;
\* assigning zero or a positive value succeeds and the getter then returns
\* exactly the value assigned.
C1_ExpenseSetters ==
    Returned(ExpenseFields) =>
        IF arg < 0 THEN raised = "ValueError"
        ELSE raised = None /\ Get(call, obj) = arg

\* a positive rent was accepted, then the boundary value -0.0001 rejected
C1_Witness ==
    /\ Returned({"rent"})
    /\ arg = -1
    /\ raised = "ValueError"
    /\ rent(obj) = U(1200)

\* C2: assigning a negative value to annual_salary_growth, annual_inflation
\* or annual_investment_return fails with ValueError; assigning zero or a
\* positive value succeeds and is returned by the getter.
C2_RateSetters ==
    Returned(RateFields) =>
        IF arg < 0 THEN raised = "ValueError"
        ELSE raised = None /\ Get(call, obj) = arg

\* 7% was accepted as annual_investment_return
C2_Witness ==
    /\ Returned({"annual_investment_return"})
    /\ arg = 700
    /\ raised = None
    /\ annual_investment_return(obj) = 700

\* the fields of an instance and the arguments of a constructor call
Has(r, field) == field \in DOMAIN r
ValidatedFields == ExpenseFields \cup RateFields
Stored(self, name) ==
    CASE name = "rent" -> self._rent
      [] name = "food_daily" -> self._food_daily
      [] name = "entertainment" -> self._entertainment
      [] name = "emergency_expenses" -> self._emergency_expenses
      [] name = "annual_salary_growth" -> self._annual_salary_growth
      [] name = "annual_inflation" -> self._annual_inflation
      [] name = "annual_investment_return" -> self._annual_investment_return
FieldsOf(self) ==
    CASE self.cls = "BaseBudget" -> ExpenseFields
      [] self.cls = "SalaryExpensesForecasting" ->
             ExpenseFields \cup {"annual_salary_growth", "annual_inflation"}
      [] self.cls = "NetWorthSimulation" -> ValidatedFields
      [] OTHER -> {}
CtorArgNames == {"salary", "tax_rate", "years", "monthly_investment_pct"}
SomeNegative(r) == \E f \in CtorArgNames : Has(r, f) /\ r[f] < 0

\* C3 (as stated): constructing with a negative tax_rate,
\* monthly_investment_pct, years or salary fails with the validation error,
\* and no instance holding a negative rate, horizon or expense is produced.
C3_ConstructorsValidate ==
    /\ (Returned({"__init__"}) /\ SomeNegative(arg)) => raised = "ValueError"
    /\ ~SomeNegative(obj)
    /\ \A f \in FieldsOf(obj) : Stored(obj, f) >= 0

\* C3 (amended): the constructors validate nothing: a constructor call never
\* raises and the instance holds each argument as given, negative or not;
\* only the assignment of a negative value to one of the seven validated
\* properties fails with ValueError, so that no instance ever holds a
\* negative expense, annual_salary_growth, annual_inflation or
\* annual_investment_return.
C3_OnlySettersValidate ==
    /\ Returned({"__init__"}) =>
           /\ raised = None
           /\ \A f \in CtorArgNames : Has(arg, f) => obj[f] = arg[f]
    /\ Returned(ValidatedFields) => (arg < 0 <=> raised = "ValueError")
    /\ \A f \in FieldsOf(obj) : Stored(obj, f) >= 0

\* an instance constructed with a negative horizon, whose rent was then
\* refused the value -0.0001
C3_Witness ==
    /\ Returned({"rent"})
    /\ arg = -1
    /\ raised = "ValueError"
    /\ Has(obj, "years")
    /\ obj.years < 0

\* C4 (as stated): on every instance whose construction and mutations
\* succeeded, each forecast method returns its full result, non-empty
\* sequences, without raising.
ForecastSequences ==
    CASE call \in {"monthly_salary_forecast", "monthly_expenses_forecast"} -> <<ret>>
      [] call = "savings_forecast" -> <<ret[2]>>
      [] call \in {"monthly_income_investment", "net_worth_savings_investments"} -> ret

C4_ForecastsNeverFail ==
    Returned(ForecastMethods) =>
        /\ raised = None
        /\ \A k \in DOMAIN ForecastSequences : Len(ForecastSequences[k]) > 0

\* C4 (amended): on every instance whose years is an integer >= 1 (the
\* constructors accept any years), each forecast method returns its full
\* result, non-empty sequences, without raising.
C4_ForecastsNeverFailFromOneYear ==
    (Returned(ForecastMethods) /\ obj.years >= 1) =>
        /\ raised = None
        /\ \A k \in DOMAIN ForecastSequences : Len(ForecastSequences[k]) > 0

\* net_worth_savings_investments returned on an instance with negative net
\* savings (expenses above the after-tax salary) and every rate set
C4_Witness ==
    /\ Returned({"net_worth_savings_investments"})
    /\ raised = None
    /\ obj.years >= 1
    /\ monthly_savings(obj) < 0
    /\ obj._annual_salary_growth > 0
    /\ obj._annual_inflation > 0
    /\ obj._annual_investment_return > 0

\* C5: every sequence a forecast method returns has exactly years * 12
\* elements, for years >= 1.
C5_ForecastLength ==
    (Returned(ForecastMethods) /\ obj.years >= 1) =>
        /\ raised = None
        /\ \A k \in DOMAIN ForecastSequences :
               Len(ForecastSequences[k]) = obj.years * 12

\* the three sequences of net_worth_savings_investments over the longest horizon
C5_Witness ==
    /\ Returned({"net_worth_savings_investments"})
    /\ obj.years = MaxYears
    /\ raised = None
    /\ Len(ret[2]) = MaxYears * 12

\* C6: with monthly_investment_pct = 0 the portfolio sequence of
\* net_worth_savings_investments is zero at every month and its net-worth
\* sequence equals, element by element, the cumulative savings sequence that
\* savings_forecast returns.
C6_NothingInvested ==
    (/\ Returned({"net_worth_savings_investments"})
     /\ obj.monthly_investment_pct = 0
     /\ obj.years >= 1) =>
        /\ raised = None
        /\ \A i \in 1..(obj.years * 12) : ret[2][i] = 0
        /\ savings_forecast(obj).raised = None
        /\ ret[3] = savings_forecast(obj).value[2]

\* nothing invested, with growth, inflation, a return and every expense set
C6_Witness ==
    /\ Returned({"net_worth_savings_investments"})
    /\ obj.monthly_investment_pct = 0
    /\ obj.years = MaxYears
    /\ raised = None
    /\ obj._annual_investment_return > 0
    /\ obj._annual_salary_growth > 0
    /\ obj._annual_inflation > 0
    /\ monthly_expenses(obj) = U(1950)
    /\ ret[3][1] # 0

\* C7: with annual_salary_growth = 0 every element of
\* monthly_salary_forecast equals round(monthly_salary_after_tax(), 2), and
\* with annual_inflation = 0 every element of monthly_expenses_forecast
\* equals round(monthly_expenses(), 2).
C7_ZeroRateConstant ==
    /\ (/\ Returned({"monthly_salary_forecast"})
        /\ raised = None
        /\ obj._annual_salary_growth = 0) =>
           \A i \in 1..Len(ret) : ret[i] = NpRound(monthly_salary_after_tax(obj))
    /\ (/\ Returned({"monthly_expenses_forecast"})
        /\ raised = None
        /\ obj._annual_inflation = 0) =>
           \A i \in 1..Len(ret) : ret[i] = NpRound(monthly_expenses(obj))

\* a salary forecast without growth whose base, 583.3333, is not a whole
\* number of cents
C7_Witness ==
    /\ Returned({"monthly_salary_forecast"})
    /\ raised = None
    /\ obj._annual_salary_growth = 0
    /\ Len(ret) = 12
    /\ monthly_salary_after_tax(obj) = 5833333
    /\ ret[12] = 5833300

\* salary * (1 - tax_rate) / 12, and the fields of the first scenario
AfterTax(salary, tax_rate) == DivRound(MulU(salary, Unit - tax_rate), 12)
Scenario1 ==
    /\ obj.salary = U(60000)
    /\ obj.tax_rate = 3000
    /\ obj._rent = U(1200)
    /\ obj._food_daily = U(10)
    /\ obj._entertainment = U(200)
    /\ obj._emergency_expenses = U(250)

\* C8: monthly_savings() = monthly_salary_after_tax() - monthly_expenses(),
\* with monthly_salary_after_tax() = salary * (1 - tax_rate) / 12; it is
\* negative, and no error, when the expenses exceed the after-tax income;
\* salary 60000, tax 0.3, rent 1200, food 10, entertainment 200, emergency
\* 250 give 3500, 1950 and 1550.
C8_MonthlySavings ==
    /\ Returned({"monthly_salary_after_tax"}) =>
           /\ raised = None
           /\ ret = AfterTax(obj.salary, obj.tax_rate)
           /\ Scenario1 => ret = U(3500)
    /\ Returned({"monthly_savings"}) =>
           /\ raised = None
           /\ ret = AfterTax(obj.salary, obj.tax_rate)
                        - (obj._rent + obj._food_daily * 30 + obj._entertainment
                               + obj._emergency_expenses)
           /\ (obj._rent + obj._food_daily * 30 + obj._entertainment
                   + obj._emergency_expenses > AfterTax(obj.salary, obj.tax_rate))
                  => ret < 0
           /\ Scenario1 => ret = U(1550)

\* monthly_savings() returned 1550 in the scenario of the claim
C8_Witness ==
    /\ Returned({"monthly_savings"})
    /\ Scenario1
    /\ ret = U(1550)

\* C9: monthly_expenses() returns rent + food_daily * 30 + entertainment +
\* emergency_expenses of the current field values.
C9_MonthlyExpenses ==
    Returned({"monthly_expenses"}) =>
        /\ raised = None
        /\ ret = obj._rent + obj._food_daily * 30 + obj._entertainment
                     + obj._emergency_expenses

\* 1200 + 10 * 30 + 200 + 250 = 1950
C9_Witness ==
    /\ Returned({"monthly_expenses"})
    /\ Scenario1
    /\ ret = U(1950)

\* the field a validation message names, and the constraint it states
FieldNamed(text) ==
    CASE text = "Your rent should be 0 or above" -> "rent"
      [] text = "Your food expenses should be 0 or above" -> "food_daily"
      [] text = "Sorry your entertainment expenses should be 0 or above" ->
             "entertainment"
      [] text = "Sorry your emergency expenses should be 0 or above" ->
             "emergency_expenses"
      [] text = "The salary growth rate should be 0 or between 0-1" ->
             "annual_salary_growth"
      [] text = "The inflation rate should be 0 or between 0-1" ->
             "annual_inflation"
      [] OTHER -> None

\* C10: the failure of a setter names the offending field, for each of the
\* seven validated fields.
C10_MessageNamesField ==
    (Returned(ValidatedFields) /\ raised = "ValueError") =>
        FieldNamed(message) = call

\* a tax rate outside [0, 1]
OutsideUnitInterval(tax_rate) == tax_rate < 0 \/ tax_rate > Unit

\* C11: tax_rate is not validated: constructing with a tax_rate that is
\* negative or greater than 1 succeeds and stores it, and
\* monthly_salary_after_tax() then returns salary * (1 - tax_rate) / 12 for
\* that value without raising (60000 at -0.1 gives 5500, at 1.5 gives -2500).
C11_TaxRateNotValidated ==
    /\ (Returned({"__init__"}) /\ OutsideUnitInterval(arg.tax_rate)) =>
           /\ raised = None
           /\ obj.cls \in Classes
           /\ obj.tax_rate = arg.tax_rate
    /\ (Returned({"monthly_salary_after_tax"}) /\ OutsideUnitInterval(obj.tax_rate)) =>
           /\ raised = None
           /\ ret = AfterTax(obj.salary, obj.tax_rate)
           /\ (obj.salary = U(60000) /\ obj.tax_rate = -1000) => ret = U(5500)
           /\ (obj.salary = U(60000) /\ obj.tax_rate = 15000) => ret = U(-2500)

\* a BaseBudget constructed with tax_rate = 1.5 returned -2500
C11_Witness ==
    /\ Returned({"monthly_salary_after_tax"})
    /\ obj.cls = "BaseBudget"
    /\ obj.tax_rate = 15000
    /\ raised = None
    /\ ret = U(-2500)

\* C12: for every month i of the horizon the third sequence returned by
\* net_worth_savings_investments is the sum of the first (cumulative
\* post-investment savings) and the second (portfolio) of the same result.
C12_NetWorthIsSum ==
    (Returned({"net_worth_savings_investments"}) /\ raised = None) =>
        /\ Len(ret) = 3
        /\ Len(ret[3]) = 12 * obj.years
        /\ \A i \in 1..(12 * obj.years) : ret[3][i] = ret[1][i] + ret[2][i]

\* two years with 30% invested at a positive return: savings and portfolio
\* both contribute to the last month's net worth
C12_Witness ==
    /\ Returned({"net_worth_savings_investments"})
    /\ raised = None
    /\ obj.years = 2
    /\ obj.monthly_investment_pct = 3000
    /\ obj._annual_investment_return = 700
    /\ ret[1][24] > 0
    /\ ret[2][24] > 0
    /\ ret[3][24] = ret[1][24] + ret[2][24]

\* the sum over the months up to i of salaryForecast[j] - expensesForecast[j]
RECURSIVE SumOfDifferences(_, _, _)
SumOfDifferences(salaryForecast, expensesForecast, i) ==
    IF i = 0 THEN 0
    ELSE SumOfDifferences(salaryForecast, expensesForecast, i - 1)
             + (salaryForecast[i] - expensesForecast[i])

IsRunningSum(cumulative, salaryForecast, expensesForecast) ==
    /\ Len(cumulative) = Len(salaryForecast)
    /\ \A i \in 1..Len(cumulative) :
           cumulative[i] = SumOfDifferences(salaryForecast, expensesForecast, i)

Scenario3 ==
    /\ obj.cls = "NetWorthSimulation"
    /\ obj.salary = U(60000)
    /\ obj.tax_rate = 3000
    /\ obj.monthly_investment_pct = 3000
    /\ obj._rent = U(1200)
    /\ obj._food_daily = U(30)
    /\ obj._entertainment = U(200)
    /\ obj._emergency_expenses = U(250)
    /\ obj._annual_inflation = 250
    /\ obj._annual_salary_growth = 500

\* an amount given in cents
Cents(n) == n * (Unit \div 10^ROUND_DECIMALS)

CumulativeSavingsYear1 ==
    <<95901, 192707, 290423, 389054, 488605, 589080,
      690484, 792824, 896103, 1000325, 1105496, 1211621>>

\* C13: savings_forecast returns (final, cumulative): cumulative[i] is the
\* sum over the months up to i of salaryForecast[j] - expensesForecast[j],
\* the rounded forecast sequences, and final is the last element of
\* cumulative.  With salary 60000, tax 0.3, rent 1200, food 30,
\* entertainment 200, emergency 250, inflation 0.025 and growth 0.05 the
\* first year of cumulative is 959.01, 1927.07, ..., 12116.21.
C13_SavingsForecast ==
    (Returned({"savings_forecast"}) /\ raised = None) =>
        /\ Len(ret) = 2
        /\ Len(ret[2]) > 0
        /\ ret[1] = ret[2][Len(ret[2])]
        /\ IsRunningSum(ret[2], monthly_salary_forecast(obj).value,
                        monthly_expenses_forecast(obj).value)
        /\ Scenario3 =>
               \A i \in 1..12 : ret[2][i] = Cents(CumulativeSavingsYear1[i])

\* the scenario over two years: 959.01 after the first month
C13_Witness ==
    /\ Returned({"savings_forecast"})
    /\ raised = None
    /\ Scenario3
    /\ obj.years = 2
    /\ ret[2][1] = 9590100
    /\ ret[1] = ret[2][24]

\* g ^ 1, g ^ 2, ..., g ^ n and g ^ i as products of factors, and the
\* entries expected of a forecast
RECURSIVE PowersUpTo(_, _, _)
PowersUpTo(acc, g, n) ==
    IF Len(acc) >= n THEN acc
    ELSE PowersUpTo(Append(acc, IF acc = <<>> THEN g ELSE MulF(acc[Len(acc)], g)),
                    g, n)

PowerOf(g, i) == PowersUpTo(<<>>, g, i)[i]

EntriesScalePowers(forecast, powers, base) ==
    \A i \in 1..Len(forecast) : forecast[i] = NpRound(MulF(base, powers[i]))

EntriesArePowers(forecast, g, base) ==
    EntriesScalePowers(forecast, PowersUpTo(<<>>, g, Len(forecast)), base)

FirstCarriesGrowth(forecast, annual, base) ==
    (annual > 0 /\ base # 0 /\ Len(forecast) > 0) =>
        /\ forecast[1] # NpRound(base)
        /\ (base > 0) => forecast[1] > base

SalaryForecastYear1 ==
    <<351426, 352858, 354295, 355739, 357188, 358643,
      360104, 361572, 363045, 364524, 366009, 367500>>

ExpensesForecastYear1 ==
    <<255525, 256052, 256579, 257108, 257637, 258168,
      258700, 259232, 259766, 260302, 260838, 261375>>

\* C14: entry i (i = 1..years * 12) of monthly_salary_forecast is
\* (1 + m) ^ i * monthly_salary_after_tax() rounded to 2 decimals, and entry
\* i of monthly_expenses_forecast is (1 + m') ^ i * monthly_expenses()
\* rounded to 2 decimals, m and m' the monthly rates of annual_salary_growth
\* and annual_inflation; the first entry carries one month of growth and is
\* not the base value.
C14_EntryIsPower ==
    /\ (Returned({"monthly_salary_forecast"}) /\ raised = None) =>
           /\ Len(ret) = 12 * obj.years
           /\ EntriesArePowers(ret, PeriodicFactor(obj._annual_salary_growth),
                               monthly_salary_after_tax(obj))
           /\ FirstCarriesGrowth(ret, obj._annual_salary_growth,
                                 monthly_salary_after_tax(obj))
           /\ (/\ obj.salary = U(60000)
               /\ obj.tax_rate = 3000
               /\ obj._annual_salary_growth = 500
               /\ obj.years >= 1) =>
                  \A i \in 1..12 : ret[i] = Cents(SalaryForecastYear1[i])
    /\ (Returned({"monthly_expenses_forecast"}) /\ raised = None) =>
           /\ Len(ret) = 12 * obj.years
           /\ EntriesArePowers(ret, PeriodicFactor(obj._annual_inflation),
                               monthly_expenses(obj))
           /\ FirstCarriesGrowth(ret, obj._annual_inflation, monthly_expenses(obj))
           /\ (/\ monthly_expenses(obj) = U(2550)
               /\ obj._annual_inflation = 250
               /\ obj.years >= 1) =>
                  \A i \in 1..12 : ret[i] = Cents(ExpensesForecastYear1[i])

\* salary 60000 at tax 0.3 growing 5% a year: the first entry is 3514.26,
\* not the base 3500
C14_Witness ==
    /\ Returned({"monthly_salary_forecast"})
    /\ raised = None
    /\ obj.salary = U(60000)
    /\ obj.tax_rate = 3000
    /\ obj._annual_salary_growth = 500
    /\ monthly_salary_after_tax(obj) = U(3500)
    /\ obj.years >= 1
    /\ ret[1] = 35142600

\* (1 + annual) ^ k, and the factor of the conversion annual / 12
AnnualFactor(annual) == (Unit + annual) * (FS \div Unit)

RECURSIVE AnnualPower(_, _)
AnnualPower(annual, k) ==
    IF k = 1 THEN AnnualFactor(annual)
    ELSE MulF(AnnualPower(annual, k - 1), AnnualFactor(annual))

SimpleFactor(annual) == FS + DivRound(annual * (FS \div Unit), 12)

YearEndsCompound(forecast, annual, base, years) ==
    \A k \in 1..years :
        /\ forecast[12 * k] = NpRound(MulF(base, AnnualPower(annual, k)))
        /\ (annual > 0 /\ base # 0) =>
               forecast[12 * k] #
                   NpRound(MulF(base, PowerOf(SimpleFactor(annual), 12 * k)))

\* C15: annual rates are converted geometrically, twelve monthly steps
\* compound to one annual step: for every whole year k in 1..years, entry
\* 12 * k of monthly_salary_forecast is monthly_salary_after_tax() *
\* (1 + annual_salary_growth) ^ k rounded to 2 decimals, likewise for
\* monthly_expenses_forecast with annual_inflation, and not the value that a
\* monthly rate of r / 12 gives.
C15_GeometricConversion ==
    /\ (Returned({"monthly_salary_forecast"}) /\ raised = None) =>
           YearEndsCompound(ret, obj._annual_salary_growth,
                            monthly_salary_after_tax(obj), obj.years)
    /\ (Returned({"monthly_expenses_forecast"}) /\ raised = None) =>
           YearEndsCompound(ret, obj._annual_inflation, monthly_expenses(obj),
                            obj.years)

\* 3500 growing 5% a year is 3675 after 12 months and 3858.75 after 24
C15_Witness ==
    /\ Returned({"monthly_salary_forecast"})
    /\ raised = None
    /\ obj.years = 2
    /\ obj._annual_salary_growth = 500
    /\ monthly_salary_after_tax(obj) = U(3500)
    /\ ret[12] = U(3675)
    /\ ret[24] = 38587500

\* the calls of the investment utilities and their arguments
UtilityFunctions ==
    {"monthly_amount_to_investment", "investment_inflation_adjustment",
     "main.monthly_amount_to_investment", "main.investment_inflation_adjustment"}

RateOf(a) == IF Has(a, "avg_ror") THEN a.avg_ror ELSE a.avg_inflation

AnyNegative(a) == RateOf(a) < 0 \/ a.years < 0 \/ a.desired_amount < 0

\* C16: monthly_amount_to_investment and investment_inflation_adjustment
\* fail with RuntimeError whenever at least one of their three arguments
\* (rate, years, desired amount) is negative, whichever it is and whatever
\* the other two are, and do not fail when all three are non-negative.
C16_NegativeArgumentsRejected ==
    Returned(UtilityFunctions) =>
        IF AnyNegative(arg)
        THEN raised = "RuntimeError" /\ message = NegativeArgument /\ ret = None
        ELSE raised = None /\ message = None

\* only years is negative and investment_inflation_adjustment fails
C16_Witness ==
    /\ Returned({"investment_inflation_adjustment"})
    /\ arg = AdjustmentArgs(300, -1, 1000000)
    /\ raised = "RuntimeError"

\* x == approx(expected) of pytest: a relative tolerance of 1e-6
Abs(x) == IF x < 0 THEN -x ELSE x
Approx(x, expected) == Abs(x - expected) <= expected \div 10^6

Example_3pc_25yrs_million ==
    /\ Returned({"main.investment_inflation_adjustment"})
    /\ arg = AdjustmentArgs(300, 25, 1000000)

AllDefault(self) ==
    /\ \A f \in FieldsOf(self) : Get(f, self) = 0
    /\ monthly_expenses(self) = 0

\* a step in which a field leaves 0 is a successful assignment to that field
LeavesDefaultOnlyBySet ==
    \A f \in FieldsOf(obj) :
        (Get(f, obj) = 0 /\ Get(f, obj') # 0) =>
            /\ call' = f
            /\ raised' = None
            /\ arg' > 0
            /\ Get(f, obj') = arg'

\* C18: on a freshly constructed instance, before any setter is called, the
\* four expense fields are 0, monthly_expenses() is 0, and the rate fields
\* annual_salary_growth, annual_inflation and annual_investment_return are
\* 0; a field stays 0 until it is explicitly and successfully set: it only
\* changes in a successful assignment to that very field.
C18_DefaultsUntilSet ==
    /\ [](Returned({"__init__"}) => AllDefault(obj))
    /\ [][LeavesDefaultOnlyBySet]_vars

\* a NetWorthSimulation whose first assignment was refused: its seven fields
\* are still 0
C18_Witness ==
    /\ Returned({"annual_inflation"})
    /\ raised = "ValueError"
    /\ obj.cls = "NetWorthSimulation"
    /\ AllDefault(obj)

\* the recurrence, and the portfolio of the docstring in units of 0.0001
FollowsRecurrence(portfolio, investmentDeposit, factor, months) ==
    /\ Len(portfolio) = months
    /\ months > 0 => portfolio[1] = investmentDeposit[1]
    /\ \A i \in 2..months :
           portfolio[i] = MulF(portfolio[i - 1], factor) + investmentDeposit[i]

PortfolioYear1 ==
    <<2877030, 5797477, 8761737, 11770207, 14823288, 17921351,
      21064800, 24254104, 27489610, 30771700, 34100818, 37477379>>

\* C19: the portfolio sequence of net_worth_savings_investments follows the
\* recurrence portfolio[0] = investmentDeposit[0] and, for every later month
\* i, portfolio[i] = portfolio[i-1] * (1 + monthly_investment_rate) +
\* investmentDeposit[i], investmentDeposit being the first sequence of
\* monthly_income_investment.  With the scenario above and a return of 7% the
\* first year is 287.703, 579.7477, ..., 3747.7379 (to within 0.0002).
C19_PortfolioRecurrence ==
    (Returned({"net_worth_savings_investments"}) /\ raised = None) =>
        /\ FollowsRecurrence(ret[2], monthly_income_investment(obj).value[1],
                             PeriodicFactor(obj._annual_investment_return),
                             12 * obj.years)
        /\ (Scenario3 /\ obj._annual_investment_return = 700 /\ obj.years >= 1) =>
               \A i \in 1..12 : Abs(ret[2][i] - PortfolioYear1[i]) <= 2

\* the scenario over two years: the second month holds the first deposit,
\* grown by a month, and the second deposit
C19_Witness ==
    /\ Returned({"net_worth_savings_investments"})
    /\ raised = None
    /\ Scenario3
    /\ obj._annual_investment_return = 700
    /\ obj.years = 2
    /\ ret[2][1] = 2877030
    /\ ret[2][2] = 5797477
    /\ ret[2][2] > ret[2][1] + 2904180

\* the sum of s[1..i]
RECURSIVE SumUpTo(_, _)
SumUpTo(s, i) == IF i = 0 THEN 0 ELSE SumUpTo(s, i - 1) + s[i]

IsSplit(result, salaryForecast, expensesForecast, pct) ==
    /\ Len(result) = 3
    /\ \A k \in 1..3 : Len(result[k]) = Len(salaryForecast)
    /\ \A i \in 1..Len(salaryForecast) :
           /\ result[1][i] = MulU(salaryForecast[i] - expensesForecast[i], pct)
           /\ result[2][i] =
                  MulU(salaryForecast[i] - expensesForecast[i], Unit - pct)
           /\ result[3][i] = SumUpTo(result[2], i)

\* an amount given in thousandths
Mills(n) == n * (Unit \div 10^3)

DepositYear1 ==
    <<287703, 290418, 293148, 295893, 298653, 301425,
      304212, 307020, 309837, 312666, 315513, 318375>>

PostInvestmentYear1 ==
    <<671307, 677642, 684012, 690417, 696857, 703325,
      709828, 716380, 722953, 729554, 736197, 742875>>

CumulativePostYear1 ==
    <<671307, 1348949, 2032961, 2723378, 3420235, 4123560,
      4833388, 5549768, 6272721, 7002275, 7738472, 8481347>>

\* C20: monthly_income_investment returns (deposit, post, cumulativePost):
\* for every month i, deposit[i] = netSavings[i] * monthly_investment_pct,
\* post[i] = netSavings[i] * (1 - monthly_investment_pct) and
\* cumulativePost[i] is the sum of post[0..i], with netSavings[i] =
\* salaryForecast[i] - expensesForecast[i].  In the scenario above the first
\* year starts 287.703 / 671.307 / 671.307 and ends 318.375 / 742.875 /
\* 8481.347.
C20_IncomeSplit ==
    (Returned({"monthly_income_investment"}) /\ raised = None) =>
        /\ IsSplit(ret, monthly_salary_forecast(obj).value,
                   monthly_expenses_forecast(obj).value,
                   obj.monthly_investment_pct)
        /\ (Scenario3 /\ obj.years >= 1) =>
               \A i \in 1..12 :
                   /\ ret[1][i] = Mills(DepositYear1[i])
                   /\ ret[2][i] = Mills(PostInvestmentYear1[i])
                   /\ ret[3][i] = Mills(CumulativePostYear1[i])

\* the scenario over two years
C20_Witness ==
    /\ Returned({"monthly_income_investment"})
    /\ raised = None
    /\ Scenario3
    /\ obj.years = 2
    /\ ret[1][1] = Mills(287703)
    /\ ret[2][1] = Mills(671307)
    /\ ret[3][12] = Mills(8481347)

\* the methods that only read the instance, and the outcome of each as a
\* function of the fields of `self`
QueryMethods ==
    {"monthly_salary_after_tax", "monthly_expenses", "monthly_savings"}
        \cup ForecastMethods

OutcomeOf(name, self) ==
    CASE name = "monthly_salary_after_tax" -> Return(monthly_salary_after_tax(self))
      [] name = "monthly_expenses" -> Return(monthly_expenses(self))
      [] name = "monthly_savings" -> Return(monthly_savings(self))
      [] name = "monthly_salary_forecast" -> monthly_salary_forecast(self)
      [] name = "monthly_expenses_forecast" -> monthly_expenses_forecast(self)
      [] name = "savings_forecast" -> savings_forecast(self)
      [] name = "monthly_income_investment" -> monthly_income_investment(self)
      [] name = "net_worth_savings_investments" ->
             net_worth_savings_investments(self)

DeterminedByFields ==
    Returned(QueryMethods) =>
        /\ raised = OutcomeOf(call, obj).raised
        /\ ret = OutcomeOf(call, obj).value

QueryLeavesFields == (pc' = "returned" /\ call' \in QueryMethods) => obj' = obj

\* C21: nothing is cached between calls: whatever setter and forecast calls
\* came before, a forecast or query call returns the value determined by the
\* field values at the moment of the call alone (so a forecast taken after a
\* mutation reflects it, and two calls with no mutation in between return
\* equal results), and no forecast or query call changes any field.
C21_NothingCached ==
    /\ []DeterminedByFields
    /\ [][QueryLeavesFields]_vars

\* an expenses forecast taken after rent and annual_inflation were set: its
\* first month is the rent grown by a month of inflation
C21_Witness ==
    /\ Returned({"monthly_expenses_forecast"})
    /\ raised = None
    /\ obj.years >= 1
    /\ obj._rent = U(1200)
    /\ obj._annual_inflation = 250
    /\ monthly_expenses(obj) = U(1200)
    /\ ret[1] = 12024700

\* the copies of monthly_amount_to_investment, and the amount for a rate:
\* -1 * pmt at the monthly rate (1 + avg_ror) ^ (1 / 12) - 1 over 12 * years
\* periods
InvestmentCopies ==
    {"monthly_amount_to_investment", "main.monthly_amount_to_investment",
     "src.monthly_amount_to_investment"}

AmountAtRate(avg_ror, a) ==
    npf_pmt_negated(PeriodicFactor(avg_ror), 12 * a.years, a.desired_amount)

\* C22: in every copy of monthly_amount_to_investment the amount returned is
\* computed from the caller's avg_ror, at the monthly rate
\* (1 + avg_ror) ^ (1 / 12) - 1 over 12 * years periods; two calls that differ
\* only in avg_ror use different rates, so that for a positive horizon and a
\* positive target the amount is not the one of another rate.
C22_UsesCallersRate ==
    (Returned(InvestmentCopies) /\ raised = None /\ arg.avg_ror >= 0) =>
        /\ ret = AmountAtRate(arg.avg_ror, arg)
        /\ (arg.years > 0 /\ arg.desired_amount > 0) =>
               \A r \in RorInputs :
                   (r >= 0 /\ r # arg.avg_ror) => ret # AmountAtRate(r, arg)

\* C23: in every reachable state, after any sequence of setter calls,
\* successful or rejected, the stored values of rent, food_daily,
\* entertainment, emergency_expenses, annual_salary_growth, annual_inflation
\* and annual_investment_return are all >= 0.
C23_StoredNonNegative ==
    obj.cls \in Classes =>
        \A f \in FieldsOf(obj) : Stored(obj, f) >= 0 /\ Get(f, obj) >= 0

\* a rejected assignment after accepted ones: the stored values are the
\* accepted ones
C23_Witness ==
    /\ Returned({"annual_inflation"})
    /\ arg = -1
    /\ raised = "ValueError"
    /\ obj.cls = "NetWorthSimulation"
    /\ obj._annual_inflation = 250
    /\ obj._annual_investment_return = 700
    /\ obj._food_daily = U(10)

\* a step in which an assignment to a validated property is rejected
Rejected == pc' = "returned" /\ call' \in ValidatedFields /\ raised' # None

\* the queries of BaseBudget, and the forecasts of the two rates of
\* SalaryExpensesForecasting
SameAnswers(before, after) ==
    /\ monthly_expenses(after) = monthly_expenses(before)
    /\ monthly_savings(after) = monthly_savings(before)
    /\ (call' = "annual_salary_growth") =>
           monthly_salary_forecast(after) = monthly_salary_forecast(before)
    /\ (call' = "annual_inflation") =>
           monthly_expenses_forecast(after) = monthly_expenses_forecast(before)

RejectedLeavesInstance ==
    Rejected =>
        /\ arg' < 0
        /\ Stored(obj', call') = Stored(obj, call')
        /\ obj' = obj
        /\ SameAnswers(obj, obj')

\* C24: a rejected setter call leaves the instance unchanged: after the
\* assignment of a negative value fails, the targeted field still holds the
\* last successfully assigned value (or its default 0) and every other field
\* is unchanged, so that the forecasts after the failed call equal those
\* before it.
C24_RejectedLeavesUnchanged == [][RejectedLeavesInstance]_vars

\* annual_salary_growth keeps the 5% assigned earlier after -0.0001 was
\* rejected
C24_Witness ==
    /\ Returned({"annual_salary_growth"})
    /\ arg = -1
    /\ raised = "ValueError"
    /\ obj._annual_salary_growth = 500
    /\ obj._rent = U(1200)

\* the attribute behind a validated property, and the assignment
\* `self.name = v` as the setter of `name` carries it out
Attribute(name) ==
    CASE name = "rent" -> "_rent"
      [] name = "food_daily" -> "_food_daily"
      [] name = "entertainment" -> "_entertainment"
      [] name = "emergency_expenses" -> "_emergency_expenses"
      [] name = "annual_salary_growth" -> "_annual_salary_growth"
      [] name = "annual_inflation" -> "_annual_inflation"
      [] name = "annual_investment_return" -> "_annual_investment_return"

Assigned(name, self, v) ==
    CASE name = "rent" -> rent_setter(self, v).self
      [] name = "food_daily" -> food_daily_setter(self, v).self
      [] name = "entertainment" -> entertainment_setter(self, v).self
      [] name = "emergency_expenses" -> emergency_expenses_setter(self, v).self
      [] name = "annual_salary_growth" -> annual_salary_growth_setter(self, v).self
      [] name = "annual_inflation" -> annual_inflation_setter(self, v).self
      [] name = "annual_investment_return" ->
             annual_investment_return_setter(self, v).self

\* values that every field accepts
OtherValues == {0, 1, U(5)}

\* a step in which an assignment to a validated property succeeds
Accepted == pc' = "returned" /\ call' \in ValidatedFields /\ raised' = None

AcceptedWritesOneField ==
    Accepted =>
        /\ DOMAIN obj' = DOMAIN obj
        /\ obj'[Attribute(call')] = arg'
        /\ \A a \in DOMAIN obj : a # Attribute(call') => obj'[a] = obj[a]
        \* assignments to distinct fields commute
        /\ \A g \in FieldsOf(obj) \ {call'} : \A w \in OtherValues :
               Assigned(g, obj', w) = Assigned(call', Assigned(g, obj, w), arg')
        \* of two assignments to the same field the later one wins
        /\ \A w \in OtherValues :
               /\ Assigned(call', obj', w) = Assigned(call', obj, w)
               /\ Assigned(call', Assigned(call', obj, w), arg') = obj'

\* C25: a successful setter call changes exactly the one field it targets
\* and leaves salary, tax_rate, years, monthly_investment_pct and every
\* other expense and rate field unchanged; hence the state after setting
\* several distinct fields does not depend on the order of the calls, and of
\* repeated assignments to one field the last successful value wins.
C25_SetterFrame == [][AcceptedWritesOneField]_vars

\* entertainment was set after rent, food_daily, emergency_expenses and the
\* three rates: they all keep their values
C25_Witness ==
    /\ Returned({"entertainment"})
    /\ arg = U(200)
    /\ raised = None
    /\ obj.cls = "NetWorthSimulation"
    /\ obj._entertainment = U(200)
    /\ obj._rent = U(1200)
    /\ obj._food_daily = U(30)
    /\ obj._emergency_expenses = U(250)
    /\ obj._annual_salary_growth = 500
    /\ obj._annual_inflation = 250
    /\ obj._annual_investment_return = 700
    /\ obj.monthly_investment_pct = 3000

\* the product of an amount and a percentage has no digit beyond the fourth
\* decimal: the model computes it without rounding
Exact(amount, pct) == ((amount % Unit) * (pct % Unit)) % Unit = 0

\* equal, or within one unit of the last decimal where a product was rounded
Conserved(total, whole, exact) ==
    IF exact THEN total = whole ELSE Abs(total - whole) <= 1

SplitConserves(result, netSavings, pct) ==
    \A i \in 1..Len(netSavings) :
        Conserved(result[1][i] + result[2][i], netSavings[i],
                  Exact(netSavings[i], pct))

\* savings is the outcome of savings_forecast; its first cumulative element
\* is the net savings of the first month
FirstNetWorthIsFirstSavings(netWorth, savings, pct) ==
    Conserved(netWorth[1], savings.value[2][1],
              Exact(savings.value[2][1], pct))

\* C26: the split of the savings conserves money: for every month i and
\* every monthly_investment_pct, investmentDeposit[i] +
\* postInvestmentSavings[i] equals netSavings[i] = salaryForecast[i] -
\* expensesForecast[i] in exact arithmetic (where the model had to round a
\* product, to within one unit of its last decimal), and therefore the first
\* element of the net-worth sequence equals the first element of the
\* cumulative savings of savings_forecast, whatever monthly_investment_pct
\* and annual_investment_return are.
C26_SplitConservesMoney ==
    /\ (Returned({"monthly_income_investment"}) /\ raised = None) =>
           SplitConserves(ret, NetSavings(obj).value, obj.monthly_investment_pct)
    /\ (/\ Returned({"net_worth_savings_investments"})
        /\ raised = None
        /\ obj.years >= 1) =>
           FirstNetWorthIsFirstSavings(ret[3], savings_forecast(obj),
                                       obj.monthly_investment_pct)

\* 30% of the first month's savings of 959.01 invested at a return of 7%:
\* the net worth of the first month is 959.01
C26_Witness ==
    /\ Returned({"net_worth_savings_investments"})
    /\ raised = None
    /\ Scenario3
    /\ obj.years >= 1
    /\ obj._annual_investment_return = 700
    /\ ret[2][1] = 2877030
    /\ ret[1][1] = 6713070
    /\ ret[3][1] = 9590100

\* the number of months up to i whose product with pct the model rounded
RECURSIVE Rounded(_, _, _)
Rounded(netSavings, pct, i) ==
    IF i = 0 THEN 0
    ELSE Rounded(netSavings, pct, i - 1)
             + (IF Exact(netSavings[i], pct) THEN 0 ELSE 1)

PortfolioIsSumOfDeposits(portfolio, investmentDeposit) ==
    /\ Len(portfolio) = Len(investmentDeposit)
    /\ \A i \in 1..Len(portfolio) : portfolio[i] = SumUpTo(investmentDeposit, i)

NetWorthIsSavings(netWorth, cumulative, netSavings, pct) ==
    /\ Len(netWorth) = Len(cumulative)
    /\ \A i \in 1..Len(netWorth) :
           Abs(netWorth[i] - cumulative[i]) <= Rounded(netSavings, pct, i)

\* netSavings is the outcome of salaryForecast - expensesForecast:
\* monthly_income_investment deposits Times(netSavings, pct) and
\* savings_forecast returns Accumulate(netSavings)
ZeroReturnNeutral(result, netSavings, pct) ==
    /\ PortfolioIsSumOfDeposits(result[2], Times(netSavings.value, pct))
    /\ NetWorthIsSavings(result[3], Accumulate(netSavings).value[2],
                         netSavings.value, pct)

\* C27: with annual_investment_return = 0, the default, and years >= 1, for every
\* monthly_investment_pct the portfolio at month i is the sum of the
\* deposits of the months up to i, and the net-worth sequence equals the
\* cumulative savings sequence of savings_forecast at every month in exact
\* arithmetic (where the model had to round products, to within one unit of
\* the last decimal for each rounded month): investing at zero return
\* neither creates nor destroys wealth.
C27_ZeroReturnNeutral ==
    (/\ Returned({"net_worth_savings_investments"})
     /\ raised = None
     /\ obj.years >= 1
     /\ obj._annual_investment_return = 0) =>
        ZeroReturnNeutral(ret, NetSavings(obj), obj.monthly_investment_pct)

\* 30% invested at the default return over two years: the portfolio holds
\* the deposits and the net worth is the cumulative savings
C27_Witness ==
    /\ Returned({"net_worth_savings_investments"})
    /\ raised = None
    /\ Scenario3
    /\ obj.years = 2
    /\ obj._annual_investment_return = 0
    /\ ret[2][2] = 2877030 + 2904180
    /\ ret[3][12] = Cents(1211621)
    /\ ret[3][24] = savings_forecast(obj).value[1]

NonNegative(s) == \A i \in 1..Len(s) : s[i] >= 0

NonDecreasing(s) == \A i \in 1..(Len(s) - 1) : s[i] <= s[i + 1]

AtLeast(s, t) == Len(s) = Len(t) /\ \A i \in 1..Len(s) : s[i] >= t[i]

\* netSavings is the outcome of salaryForecast - expensesForecast, of which
\* savings_forecast returns Accumulate(netSavings)
NeverLoses(result, netSavings) ==
    NonNegative(netSavings.value) =>
        /\ NonNegative(result[2])
        /\ NonDecreasing(result[2])
        /\ AtLeast(result[3], Accumulate(netSavings).value[2])

C29_ForecastsNonDecreasing ==
    /\ (/\ Returned({"monthly_salary_forecast"})
        /\ raised = None
        /\ obj.salary >= 0
        /\ obj.tax_rate <= Unit) =>
           NonDecreasing(ret)
    /\ (Returned({"monthly_expenses_forecast"}) /\ raised = None) =>
           NonDecreasing(ret)

\* a salary of 10000 at tax 0.3 growing 5% a year: 583.33 a month, and the
\* forecast rises over the two years
C29_Witness ==
    /\ Returned({"monthly_salary_forecast"})
    /\ raised = None
    /\ obj.salary = U(10000)
    /\ obj.tax_rate = 3000
    /\ obj._annual_salary_growth = 500
    /\ obj.years >= 1
    /\ ret[1] < ret[2]
    /\ ret[11] < ret[12]

\* the instance with one group of parameters replaced by fixed values: two
\* instances that agree on the other parameters are replaced by the same one
WithoutInvestment(self) ==
    IF self.cls = "NetWorthSimulation"
    THEN [self EXCEPT !.monthly_investment_pct = 0, !._annual_investment_return = 0]
    ELSE self

WithoutExpenses(self) ==
    [WithoutInvestment(self) EXCEPT !._rent = 0, !._food_daily = 0,
                                    !._entertainment = 0,
                                    !._emergency_expenses = 0,
                                    !._annual_inflation = 0]

WithoutSalary(self) ==
    [WithoutInvestment(self) EXCEPT !.salary = 0, !.tax_rate = 0,
                                    !._annual_salary_growth = 0]

SameOutcome(out) == raised = out.raised /\ ret = out.value

\* C30: non-interference between parameter groups: two instances that agree
\* on years, salary, tax_rate, the four expense fields, annual_salary_growth
\* and annual_inflation return identical savings_forecast,
\* monthly_salary_forecast and monthly_expenses_forecast results whatever
\* their monthly_investment_pct and annual_investment_return are; and
\* monthly_salary_forecast is unaffected by the expense fields and
\* annual_inflation, as monthly_expenses_forecast is by salary, tax_rate and
\* annual_salary_growth.
C30_NonInterference ==
    /\ Returned({"savings_forecast"}) =>
           SameOutcome(savings_forecast(WithoutInvestment(obj)))
    /\ Returned({"monthly_salary_forecast"}) =>
           SameOutcome(monthly_salary_forecast(WithoutExpenses(obj)))
    /\ Returned({"monthly_expenses_forecast"}) =>
           SameOutcome(monthly_expenses_forecast(WithoutSalary(obj)))

\* the savings forecast of the scenario is the same with 30% invested at 7%
\* as with nothing invested
C30_Witness ==
    /\ Returned({"savings_forecast"})
    /\ raised = None
    /\ Scenario3
    /\ obj._annual_investment_return = 700
    /\ ret[2][1] = 9590100
    /\ WithoutInvestment(obj) # obj
    /\ ret = savings_forecast(WithoutInvestment(obj)).value

====
